---- MODULE Spec2Model ----
(***************************************************************************)
(* A model of ts-code-contracts (src/index.ts).                            *)
(*                                                                         *)
(* src/index.ts holds two revisions of the library one after the other:    *)
(* lines 1-239 (revision 1) and lines 244-509 (revision 2).  The error     *)
(* classes, requires, checks, ensures, the three NonNullish functions and  *)
(* isDefined are the same text in both; asserts, error and unreachable     *)
(* differ.  The variable `revision` says which of the two is loaded; the   *)
(* definitions that differ carry the suffix _r1 / _r2.                     *)
(*                                                                         *)
(* Specifications: Spec (single calls of every exported function, of      *)
(* useIf and of the caller myFun), SpecCaller (signUp, statement by         *)
(* statement), SpecHistory (a first call and later calls) and               *)
(* SpecConcurrent (execution contexts calling side by side).                *)
(*                                                                         *)
(* JavaScript values are pairs <<t, v>>: t is the runtime type tag and v    *)
(* the printed payload, so that all values are comparable.                 *)
(***************************************************************************)
EXTENDS Naturals, FiniteSets, Sequences, TLC

\* ------------------------------------------------------------------ bounds
\* number of library calls one behaviour makes
MaxCalls == 3
\* number of execution contexts that call the library side by side
NumContexts == 2

\* ------------------------------------------------------------ state
VARIABLES
  revision,   \* which revision of index.ts is loaded: 1 or 2
  call,       \* the last call made: function name and arguments
  outcome,    \* what that call did: return (with value) or throw (with error)
  ncalls,     \* how many calls the caller made
  signUp,     \* the run of signUp: <<pc, email, password, log, outcome>>
  first,      \* the first call made and what it did
  ctx         \* per execution context: <<pc, call, outcome>>

vars == <<revision, call, outcome, ncalls, signUp, first, ctx>>

\* ------------------------------------------------------------ JS values
Undefined == <<"undefined", "undefined">>
Null      == <<"null", "null">>
Str(s)    == <<"string", s>>
Num(s)    == <<"number", s>>
Bool(s)   == <<"boolean", s>>
Obj(s)    == <<"object", s>>
Class(s)  == <<"function", s>>
Func(s)   == <<"function", s>>
TypeOf(x)  == x[1]
Payload(x) == x[2]

\* the values handed to the value-taking functions: the two absence markers,
\* the falsy-but-present values and some ordinary ones
Values ==
  { Undefined, Null, Str(""), Str("hi"), Num("0"), Num("1"),
    Bool("false"), Bool("true"), Obj("{name: 'John'}") }

\* a message argument: omitted (undefined) or a string
SuppliedMessages == { Str(""), Str("Custom message"), Str("Failed!") }
MessageArgs == { Undefined } \cup SuppliedMessages

\* the error classes a caller can pass to error(): the four concrete kinds,
\* the built-in Error and a caller's own subclass of Error
ConcreteKinds ==
  { "PreconditionError", "IllegalStateError", "PostconditionError",
    "AssertionError" }
ErrorTypes == { Class(k) : k \in ConcreteKinds \cup { "Error", "CustomError" } }

\* ------------------------------------------------------------ outcomes
\* an error object: its class, its name property and its message property
MkError(cls, name, message) == <<cls, name, message>>
ErrCls(e)     == e[1]
ErrName(e)    == e[2]
ErrMessage(e) == e[3]
NoError == MkError("", "", "")

\* what a call did: <<status, value returned, error thrown>>
Return(value) == <<"return", value, NoError>>
Throw(err)    == <<"throw", Undefined, err>>
NoOutcome     == <<"none", Undefined, NoError>>
Status(o)     == o[1]
ValueOf(o)    == o[2]
ErrorOf(o)    == o[3]

\* ------------------------------------------------------------ error classes
\* Error(message): the message property is the string given, and '' (from
\* Error.prototype) when the argument is undefined
ErrorMessage(message) == IF message = Undefined THEN "" ELSE Payload(message)

PreconditionError(message) ==
  MkError("PreconditionError", "PreconditionError", ErrorMessage(message))

IllegalStateError(message) ==
  MkError("IllegalStateError", "IllegalStateError", ErrorMessage(message))

\* the constructor without its assignment to this.name
PostconditionError_nameNotSet(message) ==
  MkError("PostconditionError", "Error", ErrorMessage(message))

PostconditionError(message) ==
  MkError("PostconditionError", "PostconditionError", ErrorMessage(message))

AssertionError(message) ==
  MkError("AssertionError", "AssertionError", ErrorMessage(message))

\* `new errorType(message)` for a value errorType: one of the classes above,
\* the built-in Error, a caller's subclass of Error (which leaves name alone),
\* or a TypeError when errorType is not a constructor
New(errorType, message) ==
  IF TypeOf(errorType) # "function"
  THEN MkError("TypeError", "TypeError", "errorType is not a constructor")
  ELSE CASE Payload(errorType) = "PreconditionError" ->
              PreconditionError(message)
         [] Payload(errorType) = "IllegalStateError" ->
              IllegalStateError(message)
         [] Payload(errorType) = "PostconditionError" ->
              PostconditionError(message)
         [] Payload(errorType) = "AssertionError" -> AssertionError(message)
         [] OTHER -> MkError(Payload(errorType), "Error", ErrorMessage(message))

\* ------------------------------------------------------------ the library
\* a strict comparison with null only: undefined passes
isDefined_strictNull(value) == ~(value = Null)

isDefined(value) == ~(value = Null \/ value = Undefined)

\* the default message is used even when a message is supplied
requires_ignoresMessage(condition, message) ==
  IF ~condition THEN Throw(PreconditionError(Str("Unmet precondition")))
  ELSE Return(Undefined)

\* one error object is kept and thrown again by later violations
requires_cachedError(condition, message) ==
  LET msg == IF message = Undefined THEN Str("Unmet precondition") ELSE message
  IN  IF ~condition
      THEN IF Status(outcome) = "throw" THEN Throw(ErrorOf(outcome))
           ELSE Throw(PreconditionError(msg))
      ELSE Return(Undefined)

\* the error is constructed and not thrown
requires_neverThrows(condition, message) == Return(Undefined)

requires(condition, message) ==
  LET msg == IF message = Undefined THEN Str("Unmet precondition") ELSE message
  IN  IF ~condition THEN Throw(PreconditionError(msg)) ELSE Return(Undefined)

\* the guard without its negation
checks_inverted(condition, message) ==
  LET msg == IF message = Undefined THEN Str("Callee invariant violation")
             ELSE message
  IN  IF condition THEN Throw(IllegalStateError(msg)) ELSE Return(Undefined)

checks(condition, message) ==
  LET msg == IF message = Undefined THEN Str("Callee invariant violation")
             ELSE message
  IN  IF ~condition THEN Throw(IllegalStateError(msg)) ELSE Return(Undefined)

\* `message || default` in place of a default parameter
ensures_falsyDefault(condition, message) ==
  LET msg == IF message = Undefined \/ message = Str("")
             THEN Str("Unmet postcondition") ELSE message
  IN  IF ~condition THEN Throw(PostconditionError(msg)) ELSE Return(Undefined)

ensures(condition, message) ==
  LET msg == IF message = Undefined THEN Str("Unmet postcondition") ELSE message
  IN  IF ~condition THEN Throw(PostconditionError(msg)) ELSE Return(Undefined)

asserts_r1(condition, message) ==
  LET msg == IF message = Undefined THEN Str("Failed Assertion") ELSE message
  IN  IF ~condition THEN Throw(AssertionError(msg)) ELSE Return(Undefined)

asserts_r2(condition, message) ==
  IF ~condition THEN Throw(AssertionError(message)) ELSE Return(Undefined)

requiresNonNullish(value, message) ==
  LET msg == IF message = Undefined
             THEN Str("Value must not be null or undefined") ELSE message
      r   == requires(isDefined(value), msg)
  IN  IF Status(r) = "throw" THEN r ELSE Return(value)

\* the message is not handed on to checks
checksNonNullish_noMessage(value, message) ==
  LET r == checks(isDefined(value), Undefined)
  IN  IF Status(r) = "throw" THEN r ELSE Return(value)

checksNonNullish(value, message) ==
  LET msg == IF message = Undefined
             THEN Str("Value must not be null or undefined") ELSE message
      r   == checks(isDefined(value), msg)
  IN  IF Status(r) = "throw" THEN r ELSE Return(value)

\* a truthiness test in place of isDefined
ensuresNonNullish_truthy(value, message) ==
  LET msg == IF message = Undefined
             THEN Str("Value must not be null or undefined") ELSE message
      truthy == value \notin { Null, Undefined, Str(""), Num("0"),
                               Bool("false") }
      r   == ensures(truthy, msg)
  IN  IF Status(r) = "throw" THEN r ELSE Return(value)

ensuresNonNullish(value, message) ==
  LET msg == IF message = Undefined
             THEN Str("Value must not be null or undefined") ELSE message
      r   == ensures(isDefined(value), msg)
  IN  IF Status(r) = "throw" THEN r ELSE Return(value)

error_r1(errorType, message) ==
  LET et == IF errorType = Undefined THEN Class("AssertionError") ELSE errorType
  IN  Throw(New(et, message))

\* the message is not handed to the constructor
error_r2_dropsMessage(errorType, message) ==
  IF errorType = Undefined \/ errorType = Null \/ TypeOf(errorType) = "string"
  THEN Throw(IllegalStateError(errorType))
  ELSE Throw(New(errorType, Undefined))

error_r2(errorType, message) ==
  IF errorType = Undefined \/ errorType = Null \/ TypeOf(errorType) = "string"
  THEN Throw(IllegalStateError(errorType))
  ELSE Throw(New(errorType, message))

unreachable_r1(value) ==
  Throw(MkError("Error", "Error", "Reached an unreachable case"))

unreachable_r2(value) ==
  Throw(AssertionError(Str("Reached an unreachable case")))

\* ------------------------------------------------------------ revisions
Revisions == { 1, 2 }

\* the binding of a name to the definition the loaded revision gives it
asserts(condition, message) ==
  IF revision = 1 THEN asserts_r1(condition, message)
  ELSE asserts_r2(condition, message)

error(errorType, message) ==
  IF revision = 1 THEN error_r1(errorType, message)
  ELSE error_r2(errorType, message)

unreachable(value) ==
  IF revision = 1 THEN unreachable_r1(value) ELSE unreachable_r2(value)

\* a call record; the arguments a function does not take are Undefined/FALSE
\* (the last two places are useIf's predicate and contract)
MkCall(fn, condition, value, errorType, message) ==
  <<fn, condition, value, errorType, message, Undefined, Undefined>>
MkUseIfCall(predicate, contract, message, value) ==
  <<"useIf", FALSE, value, Undefined, message, predicate, contract>>
Predicate(c) == c[6]
Contract(c)  == c[7]
Fn(c)        == c[1]
Condition(c) == c[2]
Value(c)     == c[3]
ErrorType(c) == c[4]
Message(c)   == c[5]

\* ------------------------------------------------------------ signUp
\* strings the caller inspects are sequences of characters
EmailValid   == <<"t", "y", "p", "e", "@", "s", "c", "r", "i", "p", "t", ".",
                  "c", "o", "m">>
EmailNoAt    == <<"t", "y", "p", "e", "s", "c", "r", "i", "p", "t", ".",
                  "c", "o", "m">>
PasswordGood == <<"a", "b", "c", "1", "2", "3", "4", "5">>
PasswordShort == <<"1", "2", "3", "4">>
Emails    == { EmailValid, EmailNoAt, <<>> }
Passwords == { PasswordGood, PasswordShort, <<>> }

MinPasswordLength == 8

Includes(value, ch) == \E i \in 1..Len(value) : value[i] = ch

\* !!value && value.includes('@')
isEmail(value) == Len(value) > 0 /\ Includes(value, "@")

\* !!value && value.length >= 8
isGoodPassword(value) == Len(value) > 0 /\ Len(value) >= MinPasswordLength

MkSignUp(pc, email, password, log, result) ==
  <<pc, email, password, log, result>>
SignUpPc(r)       == r[1]
SignUpEmail(r)    == r[2]
SignUpPassword(r) == r[3]
SignUpLog(r)      == r[4]
SignUpResult(r)   == r[5]
SignUpIdle == MkSignUp("idle", <<>>, <<>>, <<>>, NoOutcome)

NoCall == MkCall("none", FALSE, Undefined, Undefined, Undefined)

\* ------------------------------------------------------------ history
\* the first call of a behaviour, what it did, and whether a different call
\* has raised an error since
MkFirst(c, o, raisedSince) == <<c, o, raisedSince>>
FirstCall(f)    == f[1]
FirstOutcome(f) == f[2]
RaisedSince(f)  == f[3]
NoFirst == MkFirst(NoCall, NoOutcome, FALSE)

\* the calls replayed: every exported function, with and without a message,
\* returning and raising
HistoryMessages == { Undefined, Str("x") }
HistoryValues == { Null, Str("hi") }
HistoryCalls ==
  { MkCall(f, c, Undefined, Undefined, m) :
      f \in { "requires", "checks", "ensures", "asserts" },
      c \in BOOLEAN, m \in HistoryMessages }
  \cup
  { MkCall(f, FALSE, v, Undefined, m) :
      f \in { "requiresNonNullish", "checksNonNullish", "ensuresNonNullish" },
      v \in HistoryValues, m \in HistoryMessages }
  \cup { MkCall("isDefined", FALSE, v, Undefined, Undefined) :
          v \in HistoryValues }
  \cup { MkCall("error", FALSE, Undefined, e, Undefined) :
          e \in { Undefined, Str("x"), Class("PreconditionError") } }
  \cup { MkCall("error", FALSE, Undefined, Class("PreconditionError"),
                Str("x")),
         MkCall("unreachable", FALSE, Obj("{}"), Undefined, Undefined) }

\* the exported function a call names, applied to the call's arguments
Apply(c) ==
  CASE Fn(c) = "requires" -> requires(Condition(c), Message(c))
    [] Fn(c) = "checks" -> checks(Condition(c), Message(c))
    [] Fn(c) = "ensures" -> ensures(Condition(c), Message(c))
    [] Fn(c) = "asserts" -> asserts(Condition(c), Message(c))
    [] Fn(c) = "requiresNonNullish" ->
         requiresNonNullish(Value(c), Message(c))
    [] Fn(c) = "checksNonNullish" -> checksNonNullish(Value(c), Message(c))
    [] Fn(c) = "ensuresNonNullish" -> ensuresNonNullish(Value(c), Message(c))
    [] Fn(c) = "isDefined" ->
         Return(IF isDefined(Value(c)) THEN Bool("true") ELSE Bool("false"))
    [] Fn(c) = "error" -> error(ErrorType(c), Message(c))
    [] Fn(c) = "unreachable" -> unreachable(Value(c))

\* ------------------------------------------------------------ contexts
Contexts == 1..NumContexts
MkCtx(pc, c, o) == <<pc, c, o>>
CtxPc(x)      == x[1]
CtxCall(x)    == x[2]
CtxOutcome(x) == x[3]
CtxIdle == MkCtx("idle", NoCall, NoOutcome)

\* the calls the contexts make
ConcurrentCalls ==
  { MkCall("requires", FALSE, Undefined, Undefined, Str("x")),
    MkCall("checks", FALSE, Undefined, Undefined, Undefined),
    MkCall("checks", TRUE, Undefined, Undefined, Undefined),
    MkCall("requiresNonNullish", FALSE, Null, Undefined, Undefined),
    MkCall("requiresNonNullish", FALSE, Str("hi"), Undefined, Undefined),
    MkCall("ensures", FALSE, Undefined, Undefined, Str("x")) }

Init ==
  /\ revision \in Revisions
  /\ call = NoCall
  /\ outcome = NoOutcome
  /\ ncalls = 0
  /\ signUp = SignUpIdle
  /\ first = NoFirst
  /\ ctx = [i \in Contexts |-> CtxIdle]

Did(c, o) ==
  /\ ncalls < MaxCalls
  /\ call' = c
  /\ outcome' = o
  /\ ncalls' = ncalls + 1
  /\ UNCHANGED <<revision, signUp, first, ctx>>

CallRequires ==
  \E c \in BOOLEAN, m \in MessageArgs :
    Did(MkCall("requires", c, Undefined, Undefined, m), requires(c, m))

CallChecks ==
  \E c \in BOOLEAN, m \in MessageArgs :
    Did(MkCall("checks", c, Undefined, Undefined, m), checks(c, m))

CallEnsures ==
  \E c \in BOOLEAN, m \in MessageArgs :
    Did(MkCall("ensures", c, Undefined, Undefined, m), ensures(c, m))

CallAsserts ==
  \E c \in BOOLEAN, m \in MessageArgs :
    Did(MkCall("asserts", c, Undefined, Undefined, m), asserts(c, m))

CallRequiresNonNullish ==
  \E v \in Values, m \in MessageArgs :
    Did(MkCall("requiresNonNullish", FALSE, v, Undefined, m),
        requiresNonNullish(v, m))

CallChecksNonNullish ==
  \E v \in Values, m \in MessageArgs :
    Did(MkCall("checksNonNullish", FALSE, v, Undefined, m),
        checksNonNullish(v, m))

CallEnsuresNonNullish ==
  \E v \in Values, m \in MessageArgs :
    Did(MkCall("ensuresNonNullish", FALSE, v, Undefined, m),
        ensuresNonNullish(v, m))

CallIsDefined ==
  \E v \in Values :
    Did(MkCall("isDefined", FALSE, v, Undefined, Undefined),
        Return(IF isDefined(v) THEN Bool("true") ELSE Bool("false")))

\* error(), error(s), error(K) and error(K, m)
CallError ==
  \/ Did(MkCall("error", FALSE, Undefined, Undefined, Undefined),
         error(Undefined, Undefined))
  \/ \E s \in SuppliedMessages :
       Did(MkCall("error", FALSE, Undefined, s, Undefined),
           error(s, Undefined))
  \/ \E k \in ErrorTypes, m \in MessageArgs :
       Did(MkCall("error", FALSE, Undefined, k, m), error(k, m))

\* unreachable(x) and unreachable(x, m): the function declares one parameter,
\* so a second argument is accepted by the runtime and never read
CallUnreachable ==
  \E v \in Values, m \in MessageArgs :
    Did(MkCall("unreachable", FALSE, v, Undefined, m), unreachable(v))

\* ------------------------------------------------------------ useIf
\* the type guard of the tests: value != null && typeof value.name === 'string'
isNamed(value) == isDefined(value) /\ value = Obj("{name: 'John'}")

\* the predicates and contracts a caller hands to useIf, and its inputs
Predicates == { Func("isDefined"), Func("isNamed") }
Contracts ==
  { Func("requires"), Func("checks"), Func("ensures"), Func("asserts") }
UseIfValues == { Null, Bool("false"), Obj("{name: 'John'}"), Obj("{}") }
UseIfMessages == { Undefined, Str("Failed!") }

\* predicate(value) and contract(condition, message) for a function value
ApplyPredicate(predicate, value) ==
  CASE predicate = Func("isDefined") -> isDefined(value)
    [] predicate = Func("isNamed") -> isNamed(value)

ApplyContract(contract, condition, message) ==
  CASE contract = Func("requires") -> requires(condition, message)
    [] contract = Func("checks") -> checks(condition, message)
    [] contract = Func("ensures") -> ensures(condition, message)
    [] contract = Func("asserts") -> asserts(condition, message)

\* useIf(predicate, contract = requires, contractMessage)(value)
useIf(predicate, contract, contractMessage, value) ==
  LET ct == IF contract = Undefined THEN Func("requires") ELSE contract
      r  == ApplyContract(ct, ApplyPredicate(predicate, value),
                          contractMessage)
  IN  IF Status(r) = "throw" THEN r ELSE Return(value)

CallUseIf ==
  \E p \in Predicates, ct \in { Undefined } \cup Contracts,
     m \in UseIfMessages, v \in UseIfValues :
    Did(MkUseIfCall(p, ct, m, v), useIf(p, ct, m, v))

\* ------------------------------------------------------------ callers
\* enum MyEnum { A, B }: A is 0 and B is 1
MyEnum == { Num("0"), Num("1") }

\* what a caller can hand to myFun: the declared cases, and a value cast to
\* MyEnum that is none of them
MyFunArgs == MyEnum \cup { Num("2") }

\* the switch without its second case
myFun_missingCase(foo) ==
  CASE foo = Num("0") -> Return(Str("a"))
    [] OTHER -> unreachable(foo)

myFun(foo) ==
  CASE foo = Num("0") -> Return(Str("a"))
    [] foo = Num("1") -> Return(Str("b"))
    [] OTHER -> unreachable(foo)

CallMyFun ==
  \E foo \in MyFunArgs :
    Did(MkCall("myFun", FALSE, foo, Undefined, Undefined), myFun(foo))

\* signUp(email, password) is entered; a run goes to its end before the next
SignUpCall ==
  \E email \in Emails, password \in Passwords :
    /\ SignUpPc(signUp) \in { "idle", "returned", "raised" }
    /\ ncalls < MaxCalls
    /\ signUp' = MkSignUp("requiresEmail", email, password, <<>>, NoOutcome)
    /\ ncalls' = ncalls + 1
    /\ UNCHANGED <<revision, call, outcome, first, ctx>>

\* one statement of signUp that calls requires: a throw leaves signUp with
\* the error, a return goes on to the next statement
SignUpRequires(pc, condition, message, next) ==
  LET r == requires(condition, message)
  IN  /\ SignUpPc(signUp) = pc
      /\ call' = MkCall("requires", condition, Undefined, Undefined, message)
      /\ outcome' = r
      /\ signUp' =
           MkSignUp(IF Status(r) = "throw" THEN "raised" ELSE next,
                    SignUpEmail(signUp), SignUpPassword(signUp),
                    Append(SignUpLog(signUp), pc),
                    IF Status(r) = "throw" THEN r ELSE NoOutcome)
      /\ UNCHANGED <<revision, ncalls, first, ctx>>

SignUpRequiresEmail ==
  SignUpRequires("requiresEmail", isEmail(SignUpEmail(signUp)),
                 Str("Value must be a valid email address"),
                 "requiresPassword")

SignUpRequiresPassword ==
  SignUpRequires("requiresPassword", isGoodPassword(SignUpPassword(signUp)),
                 Str("Password must meet requirements"), "insert")

\* insert(email, password), then signUp returns
SignUpInsert ==
  /\ SignUpPc(signUp) = "insert"
  /\ signUp' =
       MkSignUp("returned", SignUpEmail(signUp), SignUpPassword(signUp),
                Append(SignUpLog(signUp), "insert"), Return(Undefined))
  /\ UNCHANGED <<revision, call, outcome, ncalls, first, ctx>>

\* the first call of a behaviour, made on the freshly loaded module
CallFirstFrom(calls) ==
  \E c \in calls :
    /\ ncalls = 0
    /\ call' = c
    /\ outcome' = Apply(c)
    /\ first' = MkFirst(c, Apply(c), FALSE)
    /\ ncalls' = 1
    /\ UNCHANGED <<revision, signUp, ctx>>

CallFirst == CallFirstFrom(HistoryCalls)

\* any later call
CallLater ==
  \E c \in HistoryCalls :
    /\ ncalls > 0 /\ ncalls < MaxCalls
    /\ call' = c
    /\ outcome' = Apply(c)
    /\ first' = MkFirst(FirstCall(first), FirstOutcome(first),
                        \/ RaisedSince(first)
                        \/ c # FirstCall(first) /\ Status(Apply(c)) = "throw")
    /\ ncalls' = ncalls + 1
    /\ UNCHANGED <<revision, signUp, ctx>>

NextHistory ==
  \/ CallFirst
  \/ CallLater

SpecHistory == Init /\ [][NextHistory]_vars

\* one call is made alone, then the contexts call side by side: a context
\* enters a call, and completes it at some later step
CallAlone == CallFirstFrom(ConcurrentCalls)

CtxBegin ==
  \E i \in Contexts, c \in ConcurrentCalls :
    /\ ncalls > 0
    /\ CtxPc(ctx[i]) = "idle"
    /\ ctx' = [ctx EXCEPT ![i] = MkCtx("calling", c, NoOutcome)]
    /\ UNCHANGED <<revision, call, outcome, ncalls, signUp, first>>

CtxFinish ==
  \E i \in Contexts :
    /\ CtxPc(ctx[i]) = "calling"
    /\ ctx' = [ctx EXCEPT
                 ![i] = MkCtx("done", CtxCall(ctx[i]), Apply(CtxCall(ctx[i])))]
    /\ call' = CtxCall(ctx[i])
    /\ outcome' = Apply(CtxCall(ctx[i]))
    /\ UNCHANGED <<revision, ncalls, signUp, first>>

NextConcurrent ==
  \/ CallAlone
  \/ CtxBegin
  \/ CtxFinish

SpecConcurrent == Init /\ [][NextConcurrent]_vars

NextCaller ==
  \/ SignUpCall
  \/ SignUpRequiresEmail
  \/ SignUpRequiresPassword
  \/ SignUpInsert

SpecCaller == Init /\ [][NextCaller]_vars

Next ==
  \/ CallRequires
  \/ CallChecks
  \/ CallEnsures
  \/ CallAsserts
  \/ CallRequiresNonNullish
  \/ CallChecksNonNullish
  \/ CallEnsuresNonNullish
  \/ CallIsDefined
  \/ CallError
  \/ CallUnreachable
  \/ CallMyFun
  \/ CallUseIf

Spec == Init /\ [][Next]_vars

TypeOK ==
  /\ revision \in Revisions
  /\ ncalls \in 0..MaxCalls
  /\ Status(outcome) \in { "none", "return", "throw" }

\* ------------------------------------------------------------ claims
BoolContracts == { "requires", "checks", "ensures", "asserts" }
NonNullishFns ==
  { "requiresNonNullish", "checksNonNullish", "ensuresNonNullish" }

\* the kind each contract is documented to raise
BoundKind(fn) ==
  CASE fn \in { "requires", "requiresNonNullish" } -> "PreconditionError"
    [] fn \in { "checks", "checksNonNullish" } -> "IllegalStateError"
    [] fn \in { "ensures", "ensuresNonNullish" } -> "PostconditionError"
    [] fn = "asserts" -> "AssertionError"

\* the default message each boolean contract is documented to use
DefaultMessage(fn) ==
  CASE fn = "requires" -> "Unmet precondition"
    [] fn = "checks" -> "Callee invariant violation"
    [] fn = "ensures" -> "Unmet postcondition"
    [] fn = "asserts" -> "Failed Assertion"

Raised == Status(outcome) = "throw"
Returned == Status(outcome) = "return" /\ ErrorOf(outcome) = NoError

\* C1: a boolean contract called with condition false and a supplied message
\* m raises the kind bound to it, carrying exactly m.
C1_SuppliedMessageRaised ==
  (Fn(call) \in BoolContracts /\ ~Condition(call)
     /\ Message(call) \in SuppliedMessages)
  => /\ Raised
     /\ ErrCls(ErrorOf(outcome)) = BoundKind(Fn(call))
     /\ ErrMessage(ErrorOf(outcome)) = Payload(Message(call))

C1_Witness ==
  /\ Fn(call) = "asserts" /\ ~Condition(call)
  /\ Message(call) = Str("Custom message")
  /\ Raised /\ ErrMessage(ErrorOf(outcome)) = "Custom message"

\* C2: a boolean contract called with condition false and no message raises
\* an error carrying the function's fixed default message ('Unmet
\* precondition', 'Callee invariant violation', 'Unmet postcondition',
\* 'Failed Assertion').
C2_DefaultMessageRaised ==
  (Fn(call) \in BoolContracts /\ ~Condition(call) /\ Message(call) = Undefined)
  => /\ Raised
     /\ ErrMessage(ErrorOf(outcome)) = DefaultMessage(Fn(call))

\* C3: a boolean contract called with condition true returns normally for
\* every message argument, raising nothing and returning no value.
C3_TrueReturnsNormally ==
  (Fn(call) \in BoolContracts /\ Condition(call))
  => /\ Returned
     /\ ValueOf(outcome) = Undefined

C3_Witness ==
  /\ Fn(call) = "checks" /\ Condition(call)
  /\ Message(call) = Str("Failed!")
  /\ Returned

\* C4: a NonNullish function called with null or undefined raises the kind
\* of its boolean contract with the supplied message, or with 'Value must
\* not be null or undefined' when no message is supplied.
C4_AbsentRaised ==
  (Fn(call) \in NonNullishFns /\ Value(call) \in { Null, Undefined })
  => /\ Raised
     /\ ErrCls(ErrorOf(outcome)) = BoundKind(Fn(call))
     /\ ErrMessage(ErrorOf(outcome)) =
          IF Message(call) = Undefined
          THEN "Value must not be null or undefined"
          ELSE Payload(Message(call))

C4_Witness ==
  /\ Fn(call) = "requiresNonNullish" /\ Value(call) = Null
  /\ Message(call) = Undefined
  /\ Raised
  /\ ErrMessage(ErrorOf(outcome)) = "Value must not be null or undefined"

\* C5: a NonNullish function called with a value that is neither null nor
\* undefined (0, '' and false included) returns that value itself, whatever
\* the message.
C5_PresentReturned ==
  (Fn(call) \in NonNullishFns /\ Value(call) \notin { Null, Undefined })
  => /\ Returned
     /\ ValueOf(outcome) = Value(call)

C5_Witness ==
  /\ Fn(call) = "ensuresNonNullish" /\ Value(call) = Num("0")
  /\ Returned /\ ValueOf(outcome) = Num("0")

\* C6: isDefined(v) returns false exactly when v is null or undefined and
\* true for every other value (empty string, 0 and false included); it never
\* raises.
C6_IsDefined ==
  Fn(call) = "isDefined"
  => /\ Returned
     /\ ValueOf(outcome) =
          IF TypeOf(Value(call)) \in { "null", "undefined" }
          THEN Bool("false") ELSE Bool("true")

C6_Witness ==
  /\ Fn(call) = "isDefined" /\ Value(call) = Undefined
  /\ ValueOf(outcome) = Bool("false")

\* C7: error() with no arguments always raises, and the raised error is an
\* IllegalStateError with no message.
C7_ErrorNoArgs ==
  (Fn(call) = "error" /\ ErrorType(call) = Undefined
     /\ Message(call) = Undefined)
  => /\ Raised
     /\ ErrCls(ErrorOf(outcome)) = "IllegalStateError"
     /\ ErrMessage(ErrorOf(outcome)) = ""

\* C8: error(s) with one string argument raises an IllegalStateError with
\* message s, for every string s including the empty one.
C8_ErrorMessageOnly ==
  (Fn(call) = "error" /\ TypeOf(ErrorType(call)) = "string")
  => /\ Raised
     /\ ErrCls(ErrorOf(outcome)) = "IllegalStateError"
     /\ ErrMessage(ErrorOf(outcome)) = Payload(ErrorType(call))

\* C9: error(K, m) with an error class K always raises an error of exactly
\* kind K with message m, and with no message when m is omitted.
C9_ErrorOfKind ==
  (Fn(call) = "error" /\ TypeOf(ErrorType(call)) = "function")
  => /\ Raised
     /\ ErrCls(ErrorOf(outcome)) = Payload(ErrorType(call))
     /\ ErrMessage(ErrorOf(outcome)) =
          IF Message(call) = Undefined THEN "" ELSE Payload(Message(call))

C9_Witness ==
  /\ Fn(call) = "error" /\ ErrorType(call) = Class("PreconditionError")
  /\ Message(call) = Str("Failed!")
  /\ Raised /\ ErrCls(ErrorOf(outcome)) = "PreconditionError"

\* C10: unreachable(x) always raises, for every value x, and the raised
\* error is an AssertionError.
C10_UnreachableRaisesAssertionError ==
  Fn(call) = "unreachable"
  => /\ Raised
     /\ ErrCls(ErrorOf(outcome)) = "AssertionError"

\* C11: unreachable(x, m) raises an error carrying exactly the message m, and
\* unreachable(x) with no message raises an error carrying 'Reached an
\* unreachable case'.
C11_UnreachableMessage ==
  Fn(call) = "unreachable"
  => /\ Raised
     /\ ErrMessage(ErrorOf(outcome)) =
          IF Message(call) = Undefined THEN "Reached an unreachable case"
          ELSE Payload(Message(call))

\* C12: a function that switches over a finite variant type, returns in every
\* declared case and calls unreachable only in the default branch returns
\* normally for every declared case; no error is raised.
C12_ExhaustiveSwitchReturns ==
  (Fn(call) = "myFun" /\ Value(call) \in { Num("0"), Num("1") })
  => /\ Returned
     /\ ValueOf(outcome) \in { Str("a"), Str("b") }

C12_Witness ==
  /\ Fn(call) = "myFun" /\ Value(call) = Num("1")
  /\ Returned /\ ValueOf(outcome) = Str("b")

\* C13: useIf(predicate, contract, message) gives a function h with: h(v)
\* returns v itself when predicate(v) is true, and when it is false h(v)
\* raises the error of the chosen contract (requires when none is given),
\* carrying the supplied message, or else the chosen contract's default
\* message.
C13_PredicateHolds ==
  IF Predicate(call) = Func("isDefined")
  THEN TypeOf(Value(call)) \notin { "null", "undefined" }
  ELSE Value(call) = Obj("{name: 'John'}")

C13_ChosenContract ==
  IF Contract(call) = Undefined THEN "requires" ELSE Payload(Contract(call))

C13_UseIf ==
  Fn(call) = "useIf"
  => IF C13_PredicateHolds
     THEN Returned /\ ValueOf(outcome) = Value(call)
     ELSE /\ Raised
          /\ ErrCls(ErrorOf(outcome)) = BoundKind(C13_ChosenContract)
          /\ ErrMessage(ErrorOf(outcome)) =
               IF Message(call) = Undefined
               THEN DefaultMessage(C13_ChosenContract)
               ELSE Payload(Message(call))

\* C14: every error raised by requires, checks, ensures, asserts, the three
\* NonNullish functions, unreachable, and error called without a kind
\* selector is of one of the four concrete ContractError kinds, never a plain
\* Error or any other kind.
C14_RaisedKindIsConcrete ==
  ( /\ Raised
    /\ \/ Fn(call) \in BoolContracts \cup NonNullishFns \cup { "unreachable" }
       \/ Fn(call) = "error" /\ TypeOf(ErrorType(call)) # "function" )
  => ErrCls(ErrorOf(outcome)) \in
       { "PreconditionError", "IllegalStateError", "PostconditionError",
         "AssertionError" }

\* C18: every constructed error of a concrete kind carries a name equal to
\* its kind name, whatever message it was constructed with (none included),
\* so the four kinds are told apart by name alone.
C18_NameIsKind ==
  (Raised /\ ErrCls(ErrorOf(outcome)) \in
     { "PreconditionError", "IllegalStateError", "PostconditionError",
       "AssertionError" })
  => ErrName(ErrorOf(outcome)) = ErrCls(ErrorOf(outcome))

C18_Witness ==
  /\ Fn(call) = "error" /\ ErrorType(call) = Class("PostconditionError")
  /\ Message(call) = Undefined
  /\ Raised /\ ErrName(ErrorOf(outcome)) = "PostconditionError"

\* C19: for requires, checks, ensures and the three NonNullish functions the
\* default message is substituted only when the message is omitted: a
\* violated call with an explicitly supplied empty string raises the bound
\* kind with the empty message, not with the default message.
C19_Violated ==
  \/ Fn(call) \in { "requires", "checks", "ensures" } /\ ~Condition(call)
  \/ /\ Fn(call) \in NonNullishFns
     /\ TypeOf(Value(call)) \in { "null", "undefined" }

C19_EmptyMessageKept ==
  C19_Violated
  => /\ Raised
     /\ ErrCls(ErrorOf(outcome)) = BoundKind(Fn(call))
     /\ Message(call) = Str("") => ErrMessage(ErrorOf(outcome)) = ""
     /\ Message(call) = Undefined =>
          ErrMessage(ErrorOf(outcome)) =
            IF Fn(call) \in NonNullishFns
            THEN "Value must not be null or undefined"
            ELSE DefaultMessage(Fn(call))

C19_Witness ==
  /\ Fn(call) = "ensuresNonNullish" /\ Value(call) = Undefined
  /\ Message(call) = Str("")
  /\ Raised /\ ErrMessage(ErrorOf(outcome)) = ""

\* C15: in a caller that calls several contracts before an operation (two
\* requires calls, then insert), the error that propagates is that of the
\* first violated contract in call order, no later contract and not the
\* guarded operation runs after it, and when no contract is violated the
\* operation runs and the caller returns normally.
C15_EmailOk == SignUpEmail(signUp) = EmailValid
C15_PasswordOk == SignUpPassword(signUp) = PasswordGood

C15_FirstViolationPropagates ==
  /\ SignUpPc(signUp) = "raised" =>
       /\ ~(C15_EmailOk /\ C15_PasswordOk)
       /\ Status(SignUpResult(signUp)) = "throw"
       /\ ErrCls(ErrorOf(SignUpResult(signUp))) = "PreconditionError"
       /\ ~C15_EmailOk =>
            /\ ErrMessage(ErrorOf(SignUpResult(signUp))) =
                 "Value must be a valid email address"
            /\ SignUpLog(signUp) = <<"requiresEmail">>
       /\ C15_EmailOk =>
            /\ ErrMessage(ErrorOf(SignUpResult(signUp))) =
                 "Password must meet requirements"
            /\ SignUpLog(signUp) = <<"requiresEmail", "requiresPassword">>
  /\ SignUpPc(signUp) = "returned" =>
       /\ C15_EmailOk /\ C15_PasswordOk
       /\ SignUpResult(signUp) = Return(Undefined)
       /\ SignUpLog(signUp) = <<"requiresEmail", "requiresPassword", "insert">>
  /\ SignUpPc(signUp) = "insert" => C15_EmailOk /\ C15_PasswordOk

C15_Witness ==
  /\ SignUpPc(signUp) = "raised"
  /\ SignUpEmail(signUp) = EmailNoAt /\ SignUpPassword(signUp) = PasswordShort
  /\ SignUpLog(signUp) = <<"requiresEmail">>
  /\ ErrMessage(ErrorOf(SignUpResult(signUp))) =
       "Value must be a valid email address"

====
